---- MODULE Spec2Model ----
(***************************************************************************)
(* Verification model of the tabular-data pipelines of the tutorial        *)
(* "Medium Data in the Tidyverse" (src/unnamed/part_000): the dplyr verbs   *)
(* filter / group_by / summarise and the tidyr verbs spread / gather as the *)
(* document calls them on the data frame sgf.                               *)
(*                                                                         *)
(* A pipeline  d %>% verb1 %>% verb2 ...  is a run of the state machine:    *)
(* frames[1] is the data frame that enters the pipe, verbs[i] is the i-th   *)
(* verb call with its arguments and frames[i+1] the data frame it returns.  *)
(***************************************************************************)
EXTENDS Integers, Sequences, FiniteSets, TLC

VARIABLES frames, verbs

(***************************************************************************)
(* The notebook "3 - Interactive Analysis with Widgets.ipynb": the kernel   *)
(* namespace (globals), the matplotlib plots the cells created (plots), the *)
(* interact widgets (widgets), the widget each cell currently displays      *)
(* (display), the messages the front end sent that the kernel has not       *)
(* handled yet (inbox), the number of cells run and sliders moved, what the *)
(* kernel of the session discards from its queue when a cell raises        *)
(* (kernel), and the front end's side of each widget (models).              *)
(***************************************************************************)
VARIABLES globals, plots, widgets, display, inbox, runs, moves, kernel, models

tidy == <<frames, verbs>>

notebook == <<globals, plots, widgets, display, inbox, runs, moves, kernel, models>>

vars == <<frames, verbs, globals, plots, widgets, display, inbox, runs, moves, kernel, models>>

\* Bounds of the model: rows of the data frame read in, verbs in one pipe.
MaxRows == 2
MaxSteps == 4

\* Rows of the data frame read in when the summaries of larger groups are
\* checked (a group needs an absent value and two present ones).
MaxObs == 3

\* Bounds of the notebook model: cell executions, slider moves, and messages
\* waiting for the kernel.
MaxRuns == 2
MaxMoves == 3
MaxInbox == 2

Range(s) == {s[i] : i \in DOMAIN s}

(***************************************************************************)
(* Cell values.  A double is an exact fraction <<numerator, denominator>>   *)
(* in lowest terms with a positive denominator; the two missing doubles of  *)
(* R have denominator 0.  A character cell is a string.                     *)
(***************************************************************************)
NA_real_ == <<1, 0>>
NaN == <<0, 0>>
NA_character_ == "NA"

Dbl(n) == <<n, 1>>

\* is.na(x) for a double: TRUE for NA and for NaN.
IsNA(x) == x[2] = 0

NAOf(type) == IF type = "chr" THEN NA_character_ ELSE NA_real_

\* as.character(x) for a double holding a whole number or NA (the only
\* doubles a gathered column holds in these pipelines).
AsCharacter(x) == IF IsNA(x) THEN NA_character_ ELSE ToString(x[1])

\* Sort order of character values: sort() on the strings of the data, with
\* the levels of the factor age_group in the order cut() creates them, NA last.
Collate == <<"S1", "S2", "[2,3]", "(3,4]", "(4,5]", "beds", "correct", "faces", "NA">>

ChrRank(s) == CHOOSE i \in DOMAIN Collate : Collate[i] = s

\* x < y in the order the verbs sort keys by (NA last).
ValLess(x, y, type) ==
    IF type = "chr" THEN ChrRank(x) < ChrRank(y)
    ELSE IF IsNA(x) THEN FALSE
    ELSE IF IsNA(y) THEN TRUE
    ELSE x[1] * y[2] < y[1] * x[2]

(***************************************************************************)
(* Data frames: ordered column names, a type per column, rows in order      *)
(* (each row a function from column name to cell), the grouping marker      *)
(* (ordered key columns, <<>> when ungrouped).  A verb that stops with an   *)
(* error returns no data frame: the pipe then holds the error message only. *)
(***************************************************************************)
Project(row, cs) == [c \in Range(cs) |-> row[c]]

Frame(cols, types, rows, groups) ==
    [cols |-> cols, types |-> types, rows |-> rows, groups |-> groups, err |-> ""]

Stop(msg) ==
    [cols |-> <<>>, types |-> <<>>, rows |-> <<>>, groups |-> <<>>, err |-> msg]

IsError(df) == df.err # ""

RECURSIVE RowLess(_, _, _, _)
RowLess(a, b, cs, types) ==
    IF cs = <<>> THEN FALSE
    ELSE LET c == Head(cs)
         IN IF a[c] = b[c] THEN RowLess(a, b, Tail(cs), types)
            ELSE ValLess(a[c], b[c], types[c])

\* The distinct key combinations S (rows over the columns cs), sorted.
RECURSIVE SortKeys(_, _, _)
SortKeys(S, cs, types) ==
    IF S = {} THEN <<>>
    ELSE LET m == CHOOSE x \in S : \A y \in S \ {x} : RowLess(x, y, cs, types)
         IN <<m>> \o SortKeys(S \ {m}, cs, types)

RECURSIVE SortVals(_, _)
SortVals(S, type) ==
    IF S = {} THEN <<>>
    ELSE LET m == CHOOSE x \in S : \A y \in S \ {x} : ValLess(x, y, type)
         IN <<m>> \o SortVals(S \ {m}, type)

(***************************************************************************)
(* tidyr::spread(data, key, value): the values of column key become column  *)
(* names, filled from column value; all other columns identify the row.     *)
(***************************************************************************)
\* The columns that identify a row of the result: all but key and value.
SpreadIdCols(df, key, value) == SelectSeq(df.cols, LAMBDA c : c \notin {key, value})

\* A spread that does not check for duplicate identifiers.
NoDuplicateCheck(df, key, value) == FALSE

\* Two rows would land in the same cell of the result.
DuplicateIdentifiers(df, key, value) ==
    LET idcols == SpreadIdCols(df, key, value)
    IN  \E i \in DOMAIN df.rows : \E j \in DOMAIN df.rows :
            /\ i < j
            /\ Project(df.rows[i], idcols) = Project(df.rows[j], idcols)
            /\ df.rows[i][key] = df.rows[j][key]

\* A spread that fills the cells without an input row with 0.
SpreadCellZeroFill(df, key, value, k, v) ==
    LET idcols == SpreadIdCols(df, key, value)
        match == {i \in DOMAIN df.rows : /\ Project(df.rows[i], idcols) = k
                                         /\ df.rows[i][key] = v}
    IN  IF match = {} THEN Dbl(0)
        ELSE df.rows[CHOOSE i \in match : TRUE][value]

\* A spread that looks a cell up by the row key alone, whatever the name.
SpreadCellAnyName(df, key, value, k, v) ==
    LET idcols == SpreadIdCols(df, key, value)
        match == {i \in DOMAIN df.rows : Project(df.rows[i], idcols) = k}
    IN  IF match = {} THEN NAOf(df.types[value])
        ELSE df.rows[CHOOSE i \in match : TRUE][value]

\* The cell of the result for the row key k and the new column v: the value of
\* the input row with that key and name, NA (fill = NA) when there is none.
SpreadCell(df, key, value, k, v) ==
    LET idcols == SpreadIdCols(df, key, value)
        match == {i \in DOMAIN df.rows : /\ Project(df.rows[i], idcols) = k
                                         /\ df.rows[i][key] = v}
    IN  IF match = {} THEN NAOf(df.types[value])
        ELSE df.rows[CHOOSE i \in match : TRUE][value]

Spread(df, key, value) ==
    LET idcols == SpreadIdCols(df, key, value)
        n == Len(df.rows)
        rowkeys == IF idcols = <<>> THEN <<Project(<<>>, idcols)>>
                   ELSE SortKeys({Project(df.rows[i], idcols) : i \in 1..n},
                                 idcols, df.types)
        newcols == SortVals({df.rows[i][key] : i \in 1..n}, df.types[key])
        outcols == idcols \o newcols
    IN  IF DuplicateIdentifiers(df, key, value)
        THEN Stop("Duplicate identifiers for rows")
        ELSE Frame(outcols,
                   [c \in Range(outcols) |->
                       IF c \in Range(idcols) THEN df.types[c] ELSE df.types[value]],
                   [r \in 1..Len(rowkeys) |->
                       [c \in Range(outcols) |->
                           IF c \in Range(idcols) THEN rowkeys[r][c]
                           ELSE SpreadCell(df, key, value, rowkeys[r], c)]],
                   <<>>)

(***************************************************************************)
(* tidyr::gather(data, key, value, ...): the columns cols are collapsed     *)
(* into the pair (key, value); the other columns are repeated.  The rows    *)
(* come out column by column, inside a column in the order of the input.    *)
(***************************************************************************)
\* A gather that drops the rows whose value is missing (na.rm = TRUE).
GatherNaRm(df, key, value, cols) ==
    LET idcols == SelectSeq(df.cols, LAMBDA c : c \notin Range(cols))
        n == Len(df.rows)
        vtype == IF \A c \in Range(cols) : df.types[c] = "dbl" THEN "dbl" ELSE "chr"
        Conv(c, x) == IF df.types[c] = vtype THEN x ELSE AsCharacter(x)
        outcols == idcols \o <<key, value>>
        Source(j) == cols[((j - 1) \div n) + 1]
        Input(j) == df.rows[((j - 1) % n) + 1]
    IN  Frame(outcols,
              [c \in Range(outcols) |->
                  IF c = key THEN "chr" ELSE IF c = value THEN vtype ELSE df.types[c]],
              SelectSeq([j \in 1..(n * Len(cols)) |->
                            [c \in Range(outcols) |->
                                IF c = key THEN Source(j)
                                ELSE IF c = value THEN Conv(Source(j), Input(j)[Source(j)])
                                ELSE Input(j)[c]]],
                        LAMBDA row : row[value] # NAOf(vtype)),
              <<>>)

\* A gather that takes the column of output row j row by row, not column by
\* column, so that an input row is paired with the wrong columns.
GatherNamesByRow(df, key, value, cols) ==
    LET idcols == SelectSeq(df.cols, LAMBDA c : c \notin Range(cols))
        n == Len(df.rows)
        vtype == IF \A c \in Range(cols) : df.types[c] = "dbl" THEN "dbl" ELSE "chr"
        Conv(c, x) == IF df.types[c] = vtype THEN x ELSE AsCharacter(x)
        outcols == idcols \o <<key, value>>
        Source(j) == cols[((j - 1) % Len(cols)) + 1]
        Input(j) == df.rows[((j - 1) % n) + 1]
    IN  Frame(outcols,
              [c \in Range(outcols) |->
                  IF c = key THEN "chr" ELSE IF c = value THEN vtype ELSE df.types[c]],
              [j \in 1..(n * Len(cols)) |->
                  [c \in Range(outcols) |->
                      IF c = key THEN Source(j)
                      ELSE IF c = value THEN Conv(Source(j), Input(j)[Source(j)])
                      ELSE Input(j)[c]]],
              <<>>)

Gather(df, key, value, cols) ==
    LET idcols == SelectSeq(df.cols, LAMBDA c : c \notin Range(cols))
        n == Len(df.rows)
        vtype == IF \A c \in Range(cols) : df.types[c] = "dbl" THEN "dbl" ELSE "chr"
        Conv(c, x) == IF df.types[c] = vtype THEN x ELSE AsCharacter(x)
        outcols == idcols \o <<key, value>>
        Source(j) == cols[((j - 1) \div n) + 1]
        Input(j) == df.rows[((j - 1) % n) + 1]
    IN  Frame(outcols,
              [c \in Range(outcols) |->
                  IF c = key THEN "chr" ELSE IF c = value THEN vtype ELSE df.types[c]],
              [j \in 1..(n * Len(cols)) |->
                  [c \in Range(outcols) |->
                      IF c = key THEN Source(j)
                      ELSE IF c = value THEN Conv(Source(j), Input(j)[Source(j)])
                      ELSE Input(j)[c]]],
              <<>>)

(***************************************************************************)
(* Arithmetic on doubles (exact fractions).                                 *)
(***************************************************************************)
RECURSIVE Gcd(_, _)
Gcd(a, b) == IF b = 0 THEN a ELSE Gcd(b, a % b)

Abs(a) == IF a < 0 THEN -a ELSE a

\* n / d in lowest terms, d > 0.
Ratio(n, d) == LET g == Gcd(Abs(n), d) IN <<n \div g, d \div g>>

Plus(x, y) == Ratio(x[1] * y[2] + y[1] * x[2], x[2] * y[2])

Minus(x, y) == Ratio(x[1] * y[2] - y[1] * x[2], x[2] * y[2])

Times(x, y) == Ratio(x[1] * y[1], x[2] * y[2])

Less(x, y) == x[1] * y[2] < y[1] * x[2]

RECURSIVE Sum(_)
Sum(xs) == IF xs = <<>> THEN Dbl(0) ELSE Plus(Head(xs), Sum(Tail(xs)))

NoNA(xs) == SelectSeq(xs, LAMBDA x : ~IsNA(x))

\* mean(x, na.rm): NA when a value is NA, NaN when nothing is left to average.
\* (No column of these pipelines holds both NA and NaN, the one case in which R
\* leaves open which of the two comes out.)
Mean(xs, na_rm) ==
    LET ys == IF na_rm THEN NoNA(xs) ELSE xs
    IN  IF \E i \in DOMAIN ys : ys[i] = NA_real_ THEN NA_real_
        ELSE IF ys = <<>> \/ \E i \in DOMAIN ys : ys[i] = NaN THEN NaN
        ELSE Times(Sum(ys), <<1, Len(ys)>>)

\* sd(x, na.rm), held as its square var(x, na.rm) (a column of type "sqrt"):
\* NA when a value is missing or fewer than two values are left.
Sd(xs, na_rm) ==
    LET ys == IF na_rm THEN NoNA(xs) ELSE xs
        m == Times(Sum(ys), <<1, Len(ys)>>)
        sq == [i \in DOMAIN ys |-> Times(Minus(ys[i], m), Minus(ys[i], m))]
    IN  IF \E i \in DOMAIN ys : IsNA(ys[i]) THEN NA_real_
        ELSE IF Len(ys) < 2 THEN NA_real_
        ELSE Times(Sum(sq), <<1, Len(ys) - 1>>)

\* A length that counts the distinct values.
LengthDistinct(xs) == Dbl(Cardinality(Range(xs)))

\* length(x): the number of values, missing ones included.
Length(xs) == Dbl(Len(xs))

\* cut(age, 2:5, include.lowest=TRUE): the levels [2,3], (3,4], (4,5].
Cut(age) ==
    IF IsNA(age) \/ Less(age, Dbl(2)) \/ Less(Dbl(5), age) THEN NA_character_
    ELSE IF ~Less(Dbl(3), age) THEN "[2,3]"
    ELSE IF ~Less(Dbl(4), age) THEN "(3,4]"
    ELSE "(4,5]"

(***************************************************************************)
(* dplyr::mutate(.data, age_group = cut(age, 2:5, include.lowest=TRUE)):    *)
(* the same rows and grouping with the column age_group computed from age.  *)
(* A new column goes last, an existing one is replaced in place, and a      *)
(* grouping column cannot be modified; a grouped data frame without rows is *)
(* mutated as an ungrouped one, before that check.  The factor is held by   *)
(* its labels.                                                              *)
(***************************************************************************)
Mutate(df) ==
    IF "age_group" \in Range(df.groups) /\ df.rows # <<>>
    THEN Stop("Column `age_group` can't be modified because it's a grouping variable")
    ELSE Frame(IF "age_group" \in Range(df.cols) THEN df.cols
               ELSE Append(df.cols, "age_group"),
               [c \in Range(df.cols) \cup {"age_group"} |->
                   IF c = "age_group" THEN "chr" ELSE df.types[c]],
               [i \in DOMAIN df.rows |->
                   [c \in Range(df.cols) \cup {"age_group"} |->
                       IF c = "age_group" THEN Cut(df.rows[i]["age"])
                       ELSE df.rows[i][c]]],
               df.groups)

(***************************************************************************)
(* dplyr::filter(.data, ...): the rows for which every condition is TRUE;   *)
(* a condition that evaluates to NA drops the row.                          *)
(***************************************************************************)
\* One condition on one row: "TRUE", "FALSE" or "NA".
Eval(cond, row) ==
    LET x == row[cond.col]
    IN  IF cond.fn = "not_is_na" THEN (IF IsNA(x) THEN "FALSE" ELSE "TRUE")
        ELSE IF IsNA(x) THEN "NA"
        ELSE IF cond.fn = "gt" THEN (IF Less(cond.arg, x) THEN "TRUE" ELSE "FALSE")
        ELSE (IF Less(x, cond.arg) THEN "TRUE" ELSE "FALSE")

\* A filter that keeps the rows for which some condition is TRUE.
KeepsAny(conds, row) == \E k \in DOMAIN conds : Eval(conds[k], row) = "TRUE"

Keeps(conds, row) == \A k \in DOMAIN conds : Eval(conds[k], row) = "TRUE"

\* A filter whose scan of the rows starts after the first row.
FilterSkipFirst(df, conds) ==
    Frame(df.cols, df.types,
          SelectSeq(SubSeq(df.rows, 2, Len(df.rows)), LAMBDA row : Keeps(conds, row)),
          df.groups)

Filter(df, conds) ==
    Frame(df.cols, df.types,
          SelectSeq(df.rows, LAMBDA row : Keeps(conds, row)),
          df.groups)

(***************************************************************************)
(* dplyr::group_by(.data, ...): the same data with a grouping marker.       *)
(***************************************************************************)
\* Groups by the first key column only.
GroupIndicesFirstKey(df) ==
    LET n == Len(df.rows)
        first == SubSeq(df.groups, 1, 1)
        keys == SortKeys({Project(df.rows[i], first) : i \in 1..n}, first, df.types)
    IN  [g \in 1..Len(keys) |->
            SelectSeq([i \in 1..n |-> i],
                      LAMBDA i : Project(df.rows[i], first) = keys[g])]

\* The groups of a grouped data frame: for every distinct combination of the
\* key columns, in sorted order, the indices of its rows in increasing order.
GroupIndices(df) ==
    LET n == Len(df.rows)
        keys == SortKeys({Project(df.rows[i], df.groups) : i \in 1..n},
                         df.groups, df.types)
    IN  [g \in 1..Len(keys) |->
            SelectSeq([i \in 1..n |-> i],
                      LAMBDA i : Project(df.rows[i], df.groups) = keys[g])]

RECURSIVE Flatten(_)
Flatten(ss) == IF ss = <<>> THEN <<>> ELSE Head(ss) \o Flatten(Tail(ss))

\* A group_by that also arranges the rows group by group.
GroupByArranged(df, keys) ==
    LET order == Flatten(GroupIndices(Frame(df.cols, df.types, df.rows, keys)))
    IN  Frame(df.cols, df.types, [r \in DOMAIN order |-> df.rows[order[r]]], keys)

GroupBy(df, keys) == Frame(df.cols, df.types, df.rows, keys)

(***************************************************************************)
(* dplyr::summarise(.data, name = fn(col), ...): one row per group (one row *)
(* for an ungrouped data frame), the key columns and one column per         *)
(* aggregation; the result drops the last grouping column from the marker.  *)
(***************************************************************************)
\* A reduction that ignores the na.rm argument of the call.
NaRmIgnored(agg) == FALSE

\* The na.rm argument of a call: FALSE unless the call says na.rm=TRUE.
NaRm(agg) == agg.na_rm = "TRUE"

Reduce(agg, xs) ==
    IF agg.fn = "mean" THEN Mean(xs, NaRm(agg))
    ELSE IF agg.fn = "sd" THEN Sd(xs, NaRm(agg))
    ELSE Length(xs)

ResultType(agg) ==
    IF agg.fn = "mean" THEN "dbl" ELSE IF agg.fn = "sd" THEN "sqrt" ELSE "int"

\* A summarise that reduces the whole source column for every group.
SummariseWholeColumn(df, aggs) ==
    LET n == Len(df.rows)
        keys == df.groups
        groups == IF keys = <<>> THEN <<[i \in 1..n |-> i]>> ELSE GroupIndices(df)
        Column(g, c) == [j \in 1..n |-> df.rows[j][c]]
        names == [j \in DOMAIN aggs |-> aggs[j].name]
        AggOf(c) == aggs[CHOOSE j \in DOMAIN aggs : aggs[j].name = c]
        outcols == keys \o names
    IN  Frame(outcols,
              [c \in Range(outcols) |->
                  IF c \in Range(keys) THEN df.types[c] ELSE ResultType(AggOf(c))],
              [r \in DOMAIN groups |->
                  [c \in Range(outcols) |->
                      IF c \in Range(keys) THEN df.rows[groups[r][1]][c]
                      ELSE Reduce(AggOf(c), Column(groups[r], AggOf(c).col))]],
              IF keys = <<>> THEN <<>> ELSE SubSeq(keys, 1, Len(keys) - 1))

\* A summarise that returns an ungrouped table.
SummariseUngroups(df, aggs) ==
    LET n == Len(df.rows)
        keys == df.groups
        groups == IF keys = <<>> THEN <<[i \in 1..n |-> i]>> ELSE GroupIndices(df)
        Column(g, c) == [j \in DOMAIN g |-> df.rows[g[j]][c]]
        names == [j \in DOMAIN aggs |-> aggs[j].name]
        AggOf(c) == aggs[CHOOSE j \in DOMAIN aggs : aggs[j].name = c]
        outcols == keys \o names
    IN  Frame(outcols,
              [c \in Range(outcols) |->
                  IF c \in Range(keys) THEN df.types[c] ELSE ResultType(AggOf(c))],
              [r \in DOMAIN groups |->
                  [c \in Range(outcols) |->
                      IF c \in Range(keys) THEN df.rows[groups[r][1]][c]
                      ELSE Reduce(AggOf(c), Column(groups[r], AggOf(c).col))]],
              <<>>)

Summarise(df, aggs) ==
    LET n == Len(df.rows)
        keys == df.groups
        groups == IF keys = <<>> THEN <<[i \in 1..n |-> i]>> ELSE GroupIndices(df)
        Column(g, c) == [j \in DOMAIN g |-> df.rows[g[j]][c]]
        names == [j \in DOMAIN aggs |-> aggs[j].name]
        AggOf(c) == aggs[CHOOSE j \in DOMAIN aggs : aggs[j].name = c]
        outcols == keys \o names
    IN  Frame(outcols,
              [c \in Range(outcols) |->
                  IF c \in Range(keys) THEN df.types[c] ELSE ResultType(AggOf(c))],
              [r \in DOMAIN groups |->
                  [c \in Range(outcols) |->
                      IF c \in Range(keys) THEN df.rows[groups[r][1]][c]
                      ELSE Reduce(AggOf(c), Column(groups[r], AggOf(c).col))]],
              IF keys = <<>> THEN <<>> ELSE SubSeq(keys, 1, Len(keys) - 1))

(***************************************************************************)
(* The data frames that enter a reshaping pipe.                             *)
(***************************************************************************)
Subids == {"S1", "S2"}
Items == <<"beds", "faces">>
Corrects == {Dbl(0), Dbl(1), NA_real_}

Tables(RowSet) == UNION {[1..n -> RowSet] : n \in 0..MaxRows}

\* sgf in long (tidy) form: one row per trial.
LongCols == <<"subid", "item", "correct">>
LongTypes == [c \in Range(LongCols) |-> IF c = "correct" THEN "dbl" ELSE "chr"]
LongRows == {[c \in Range(LongCols) |->
                 IF c = "subid" THEN s ELSE IF c = "item" THEN i ELSE v] :
             s \in Subids, i \in Range(Items), v \in Corrects}
LongFrames == {Frame(LongCols, LongTypes, rows, <<>>) : rows \in Tables(LongRows)}

\* sgf_wide: one row per subject, one value column per item.
WideCols == <<"subid">> \o Items
WideTypes == [c \in Range(WideCols) |-> IF c = "subid" THEN "chr" ELSE "dbl"]
WideRows == {[c \in Range(WideCols) |->
                 IF c = "subid" THEN s ELSE IF c = "beds" THEN b ELSE f] :
             s \in Subids, b \in Corrects, f \in Corrects}
WideFrames == {Frame(WideCols, WideTypes, rows, <<>>) : rows \in Tables(WideRows)}

\* The lists of value columns a gather call can name.
ColLists == {<<"beds">>, <<"faces">>, <<"beds", "faces">>, <<"faces", "beds">>}

Last == frames[Len(frames)]

CanStep == Len(verbs) < MaxSteps /\ ~IsError(Last)

Apply(verb, result) ==
    /\ frames' = Append(frames, result)
    /\ verbs' = Append(verbs, verb)
    /\ UNCHANGED notebook

\* d %>% spread(item, correct)
DoSpread ==
    /\ CanStep
    /\ {"item", "correct"} \subseteq Range(Last.cols)
    /\ Apply([op |-> "spread", key |-> "item", value |-> "correct"],
             Spread(Last, "item", "correct"))

\* d %>% gather(item, correct, <cols>), on a data frame that has the named
\* columns and no column item or correct yet.
DoGather ==
    /\ CanStep
    /\ {"item", "correct"} \cap Range(Last.cols) = {}
    /\ \E cols \in ColLists :
          /\ Range(cols) \subseteq Range(Last.cols)
          /\ Apply([op |-> "gather", key |-> "item", value |-> "correct", cols |-> cols],
                   Gather(Last, "item", "correct", cols))

(***************************************************************************)
(* The data frames that enter an aggregation pipe: sgf as read, before the  *)
(* column age_group is added to it.                                         *)
(***************************************************************************)
Ages == {<<5, 2>>, <<7, 2>>}

SgfCols == <<"subid", "age", "correct">>
SgfTypes == [c \in Range(SgfCols) |-> IF c \in {"age", "correct"} THEN "dbl" ELSE "chr"]
SgfRows == {[c \in Range(SgfCols) |->
                IF c = "subid" THEN s ELSE IF c = "age" THEN a ELSE v] :
            s \in Subids, a \in Ages, v \in Corrects}
SgfFrames == {Frame(SgfCols, SgfTypes, rows, <<>>) : rows \in Tables(SgfRows)}

\* sgf reduced to the trials of one participant, up to MaxObs of them.
ObsRows == {row \in SgfRows : row["subid"] = "S1"}
ObsFrames ==
    {Frame(SgfCols, SgfTypes, rows, <<>>) :
        rows \in UNION {[1..n -> ObsRows] : n \in 0..MaxObs}}

Cond(fn, col, arg) == [fn |-> fn, col |-> col, arg |-> arg]

\* The condition lists of the filter calls.
CondLists ==
    { <<Cond("gt", "age", Dbl(2)), Cond("lt", "age", Dbl(3))>>,
      <<Cond("not_is_na", "correct", NaN)>>,
      <<Cond("gt", "correct", Dbl(0)), Cond("lt", "age", Dbl(3))>> }

\* The key lists of the group_by calls.
KeyLists == {<<"age_group">>, <<"age_group", "subid">>}

Call(name, fn, col, na_rm) == [name |-> name, fn |-> fn, col |-> col, na_rm |-> na_rm]

\* The aggregation lists of the summarise calls.
AggLists ==
    { <<Call("correct", "mean", "correct", "default")>>,
      <<Call("correct", "mean", "correct", "default"),
        Call("n_observations", "length", "subid", "default")>>,
      <<Call("mean_correct", "mean", "correct", "default"),
        Call("sd_correct", "sd", "correct", "default")>>,
      <<Call("sd_correct", "sd", "correct", "TRUE"),
        Call("mean_correct", "mean", "correct", "default")>> }

\* d %>% filter(<conds>), on a data frame that has the columns tested.
DoFilter ==
    /\ CanStep
    /\ \E conds \in CondLists :
          /\ \A k \in DOMAIN conds :
                /\ conds[k].col \in Range(Last.cols)
                /\ Last.types[conds[k].col] = "dbl"
          /\ Apply([op |-> "filter", conds |-> conds], Filter(Last, conds))

\* d %>% mutate(age_group = cut(age, 2:5, include.lowest=TRUE)), on a data
\* frame that has the column age.
DoMutate ==
    /\ CanStep
    /\ "age" \in Range(Last.cols)
    /\ Apply([op |-> "mutate"], Mutate(Last))

\* d %>% group_by(<keys>), on a data frame that has the key columns.
DoGroupBy ==
    /\ CanStep
    /\ \E keys \in KeyLists :
          /\ Range(keys) \subseteq Range(Last.cols)
          /\ Apply([op |-> "group_by", keys |-> keys], GroupBy(Last, keys))

\* d %>% summarise(<aggs>), on a data frame that has the source columns.
DoSummarise ==
    /\ CanStep
    /\ \E aggs \in AggLists :
          /\ \A k \in DOMAIN aggs :
                /\ aggs[k].col \in Range(Last.cols)
                /\ aggs[k].name \notin Range(Last.groups)
                /\ aggs[k].fn # "length" => Last.types[aggs[k].col] = "dbl"
          /\ Apply([op |-> "summarise", aggs |-> aggs], Summarise(Last, aggs))

(***************************************************************************)
(* The notebook: cells, sliders and the callbacks interact registers.       *)
(***************************************************************************)
\* The code cells of the notebook after the imports, in document order: the
\* definition of square, the interact call on it, the decorator version, the
\* two distribution plots, the cell that reads the data and the plot of the
\* responses.
Cells == {"def_square", "interact_square", "square", "normal", "beta", "data", "plot"}

\* The function the interact call of a cell wraps.
Func(cell) == IF cell \in {"interact_square", "square"} THEN "square" ELSE cell

Slider(name, min, max, step) == [name |-> name, min |-> min, max |-> max, step |-> step]

\* stim=data["stim"].unique() and the like: a dropdown, its options held by
\* their position in the array (two options stand for the values in the data).
Dropdown(name) == Slider(name, Dbl(1), Dbl(2), Dbl(1))

\* The controls of the interact call of each cell: name = (min, max, step)
\* for a slider, name = <array> for a dropdown.
Sliders(cell) ==
    IF Func(cell) = "square" THEN <<Slider("x", Dbl(-10), Dbl(10), <<1, 10>>)>>
    ELSE IF cell = "normal"
    THEN <<Slider("mu", Dbl(-2), Dbl(2), <<1, 100>>),
           Slider("sigma", <<1, 100>>, Dbl(2), <<1, 100>>)>>
    ELSE IF cell = "beta"
    THEN <<Slider("alpha", Dbl(0), Dbl(10), <<1, 10>>),
           Slider("beta", Dbl(0), Dbl(10), <<1, 10>>)>>
    ELSE IF cell = "plot"
    THEN <<Dropdown("stim"), Dropdown("hole_width"), Dropdown("hole_class")>>
    ELSE <<>>

Params(cell) == {Sliders(cell)[k].name : k \in DOMAIN Sliders(cell)}

SliderOf(cell, name) ==
    Sliders(cell)[CHOOSE k \in DOMAIN Sliders(cell) : Sliders(cell)[k].name = name]

\* The value a slider starts at: the middle of its range, on a step.
MidValue(sl) ==
    LET half == Times(Minus(sl.max, sl.min), <<1, 2>>)
        ticks == Ratio(half[1] * sl.step[2], half[2] * sl.step[1])
    IN  Plus(sl.min, Times(Dbl(ticks[1] \div ticks[2]), sl.step))

\* The value a control starts at: a dropdown starts at its first option.
StartValue(cell, name) ==
    IF cell = "plot" THEN Dbl(1) ELSE MidValue(SliderOf(cell, name))

\* The positions the user moves a control to: two for the slider of square,
\* one for the other sliders, the second option for the dropdown stim.
Positions(cell, name) ==
    IF Func(cell) = "square" THEN {Dbl(-10), <<5, 2>>}
    ELSE IF name = "mu" THEN {Dbl(1)}
    ELSE IF name = "sigma" THEN {Dbl(2)}
    ELSE IF cell = "plot" THEN (IF name = "stim" THEN {Dbl(2)} ELSE {})
    ELSE {Dbl(10)}

\* def square(x): return x ** 2
Square(x) == Times(x, x)

\* x = np.linspace(lo, hi, 1000), held by its arguments.
Linspace(cell) == IF cell = "normal" THEN <<-4, 4, 1000>> ELSE <<0, 1, 1000>>

NoArray == <<0, 0, 0>>

\* scipy.stats.<dist>.pdf(x, a, b), held by its arguments.
Pdf(dist, x, a, b) == [dist |-> dist, x |-> x, a |-> a, b |-> b]

NoData == [dist |-> "", x |-> NoArray, a |-> Dbl(0), b |-> Dbl(0)]

\* "mu={}, sigma={}".format(mu, sigma), held by its parts.
Title(n1, v1, n2, v2) == [n1 |-> n1, v1 |-> v1, n2 |-> n2, v2 |-> v2]

NoTitle == Title("", Dbl(0), "", Dbl(0))

\* A title without format fields: ax1.set_title("Responses").
Caption(text) == Title(text, NaN, "", NaN)

\* The x limits of axes that matplotlib scaled to what was drawn on them,
\* held by the interval the drawing spans.
Autoscaled(lo, hi) == [auto |-> TRUE, lo |-> lo, hi |-> hi]

\* Axes as plt.subplots creates them.
NewAxes == [xlim |-> <<0, 1>>, ylim |-> <<0, 1>>, title |-> NoTitle]

NoAxes == <<>>

\* What the set-up lines of a cell create.  In a distribution cell,
\* fig, ax = plt.subplots(); line, = ax.plot([], []); ax.set_xlim(..);
\* ax.set_ylim(..): an open figure, its axes and an empty line.  In the cell
\* of plot, fig, (ax1, ax2) = plt.subplots(1, 2): an open figure with two
\* empty axes; xlim, ylim and title are those of ax1, the field ax2 holds
\* those of ax2, and panels holds the arguments plot last drew them from.
NewPlot(cell) ==
    [cell |-> cell, open |-> TRUE,
     xlim |-> IF cell = "normal" THEN <<-4, 4>> ELSE <<0, 1>>,
     ylim |-> IF cell = "normal" THEN <<0, 2>> ELSE IF cell = "beta" THEN <<0, 10>>
              ELSE <<0, 1>>,
     xdata |-> NoArray, ydata |-> NoData, title |-> NoTitle, draws |-> 0,
     ax2 |-> IF cell = "plot" THEN NewAxes ELSE NoAxes,
     panels |-> <<>>]

\* plt.close('all')
CloseAll(ps) == [p \in DOMAIN ps |-> [ps[p] EXCEPT !.open = FALSE]]

\* The body of plot_normal_distribution / plot_beta_distribution run with the
\* namespace g: the names x, line, ax and fig are looked up in g at the call.
PlotBody(cell, args, g, ps) ==
    LET dist == IF cell = "normal" THEN "norm" ELSE "beta"
        n1 == Sliders(cell)[1].name
        n2 == Sliders(cell)[2].name
        y == Pdf(dist, g.x, args[n1], args[n2])
        set == [ps EXCEPT ![g.line].xdata = g.x, ![g.line].ydata = y]
        titled == [set EXCEPT ![g.ax].title = Title(n1, args[n1], n2, args[n2])]
    IN  [titled EXCEPT ![g.fig].draws = @ + 1]

\* The body of plot run with the namespace g: ax1 and ax2 are looked up in g
\* at the call, cleared and drawn anew from the rows of data the arguments
\* select: on ax1 two bars of width 0.8 at 0 and 1, on ax2 a histogram and
\* a curve over [-3, 3], each with y limits (0, 1) and a title; x is a local
\* name and the figure is not redrawn.
PlotPanels(args, g, ps) ==
    [ps EXCEPT ![g.ax1].panels = args,
               ![g.ax1].xlim = Autoscaled(<<-2, 5>>, <<7, 5>>),
               ![g.ax1].ylim = <<0, 1>>,
               ![g.ax1].title = Caption("Responses"),
               ![g.ax1].ax2 = [xlim |-> Autoscaled(Dbl(-3), Dbl(3)),
                               ylim |-> <<0, 1>>,
                               title |-> Caption("Log Response Times")]]

\* One call of the function a widget wraps, with the keyword arguments args:
\* the plots after the call.
CallPlots(cell, args, g, ps) ==
    IF Func(cell) = "square" THEN ps
    ELSE IF cell = "plot" THEN PlotPanels(args, g, ps)
    ELSE PlotBody(cell, args, g, ps)

\* The value the call returns, which interact displays (None for the plots).
CallResult(cell, args) == IF Func(cell) = "square" THEN Square(args["x"]) ELSE NaN

\* The objects a call of a plotting function wrote to.
Drew(cell, g) ==
    IF Func(cell) = "square" THEN [line |-> 0, ax |-> 0, fig |-> 0, x |-> NoArray]
    ELSE IF cell = "plot" THEN [line |-> 0, ax |-> g.ax1, fig |-> 0, x |-> <<-3, 3, 50>>]
    ELSE [line |-> g.line, ax |-> g.ax, fig |-> g.fig, x |-> g.x]

\* The widget after a call of its function with the arguments args.
Called(w, args, g) ==
    [w EXCEPT !.values = args, !.calls = @ + 1, !.lastargs = args,
              !.out = CallResult(w.cell, args), !.drew = Drew(w.cell, g)]

\* interact(f, ...): a widget with one control per argument at its starting
\* value; interact calls f once right away.
NewWidget(cell, g) ==
    LET start == [n \in Params(cell) |-> StartValue(cell, n)]
    IN  Called([cell |-> cell, values |-> start, calls |-> 0, lastargs |-> start,
                out |-> NaN, drew |-> Drew("square", g)],
               start, g)

\* An argument list built from the widget's values before the change arrives.
ChangedArgsStale(w, msg) == w.values

\* The keyword arguments of the call a change of a control triggers: the
\* current value of every control of the widget, the changed one at its new
\* value.
ChangedArgs(w, msg) == [w.values EXCEPT ![msg.name] = msg.value]

\* The namespace after the set-up lines of a distribution cell.
Rebound(g, cell, id) ==
    [g EXCEPT !.fig = id, !.ax = id, !.line = id, !.x = Linspace(cell)]

\* The output area of a cell: the request the cell last sent (0 for none),
\* and what that request has displayed so far: a widget (0 for none) or the
\* error the cell raised.
Cleared(request) == [widget |-> 0, error |-> "", request |-> request]

NoWidget == Cleared(0)

Shows(request, id) == [widget |-> id, error |-> "", request |-> request]

Raised(request, error) == [widget |-> 0, error |-> error, request |-> request]

\* The front end shows the output of a request in the cell unless the cell
\* has sent a later request, whose output area it then is.
Output(cell, out) ==
    IF out.request = display[cell].request
    THEN [display EXCEPT ![cell] = out]
    ELSE display

\* No value: the buffer of a control that has no change waiting.
None == NaN

\* The front end's model of a widget: per control the value shown, whether a
\* change is with the kernel ("sent"), answered by it ("answered") or none is
\* out ("idle"), and the change made meanwhile that waits to be sent; the
\* number of changes the user made and of the messages sent.
NewModel(w) ==
    [shown |-> w.values,
     state |-> [n \in DOMAIN w.values |-> "idle"],
     buffer |-> [n \in DOMAIN w.values |-> None],
     moved |-> 0, sent |-> 0]

Execute(cell, request) ==
    [kind |-> "execute", cell |-> cell, request |-> request, widget |-> 0,
     name |-> "", value |-> None]

Change(cell, id, name, value) ==
    [kind |-> "change", cell |-> cell, request |-> 0, widget |-> id,
     name |-> name, value |-> value]

\* The front end clears the output area of a cell and sends an execute
\* request for it; the output of an earlier request of the cell that is not
\* answered yet is no longer shown.
RunCell ==
    /\ runs < MaxRuns /\ Len(inbox) < MaxInbox
    /\ \E cell \in Cells :
          /\ inbox' = Append(inbox, Execute(cell, runs + 1))
          /\ display' = [display EXCEPT ![cell] = Cleared(runs + 1)]
    /\ runs' = runs + 1
    /\ UNCHANGED <<globals, plots, widgets, moves, kernel, models, tidy>>

\* The user moves a control of a displayed widget.  The front end sends the
\* new value to the kernel when no change of the control is out, and keeps
\* it back otherwise (one message per control at a time), a value kept back
\* earlier being replaced.
MoveSlider ==
    /\ moves < MaxMoves
    /\ \E cell \in Cells : \E name \in Params(cell) : \E v \in Positions(cell, name) :
          LET id == display[cell].widget
          IN  /\ id # 0
              /\ models[id].shown[name] # v
              /\ IF models[id].state[name] = "idle"
                 THEN /\ Len(inbox) < MaxInbox
                      /\ inbox' = Append(inbox, Change(cell, id, name, v))
                      /\ models' = [models EXCEPT ![id].shown[name] = v,
                                                  ![id].state[name] = "sent",
                                                  ![id].moved = @ + 1,
                                                  ![id].sent = @ + 1]
                 ELSE /\ inbox' = inbox
                      /\ models' = [models EXCEPT ![id].shown[name] = v,
                                                  ![id].buffer[name] = v,
                                                  ![id].moved = @ + 1]
    /\ moves' = moves + 1
    /\ UNCHANGED <<globals, plots, widgets, display, runs, kernel, tidy>>

\* The front end learns that the kernel handled the change of a control: it
\* sends the value kept back meanwhile, if any.
HandleStatus ==
    /\ \E id \in DOMAIN models : \E name \in DOMAIN models[id].state :
          /\ models[id].state[name] = "answered"
          /\ IF models[id].buffer[name] # None
             THEN /\ Len(inbox) < MaxInbox
                  /\ inbox' = Append(inbox, Change(widgets[id].cell, id, name,
                                                   models[id].buffer[name]))
                  /\ models' = [models EXCEPT ![id].state[name] = "sent",
                                              ![id].buffer[name] = None,
                                              ![id].sent = @ + 1]
             ELSE /\ inbox' = inbox
                  /\ models' = [models EXCEPT ![id].state[name] = "idle"]
    /\ UNCHANGED <<globals, plots, widgets, display, runs, moves, kernel, tidy>>

\* What a kernel discards from its queue when a cell raised: every queued
\* message, or the queued execute requests only.
Kernels == {"abort_all", "abort_execute"}

\* The queue after the cell at its head ran without an error.
Done(q) == Tail(q)

\* The queue after the cell at its head raised: the kernel answers what it
\* discards with "aborted" and does not run it.
Aborted(q, k) ==
    IF k = "abort_all" THEN <<>>
    ELSE SelectSeq(Tail(q), LAMBDA msg : msg.kind # "execute")

\* The execute request of a cell is the next message the kernel takes.
Takes(cell) ==
    inbox # <<>> /\ Head(inbox).kind = "execute" /\ Head(inbox).cell = cell

\* The kernel runs the cell  def square(x): return x ** 2.
ExecuteDefSquare ==
    /\ Takes("def_square")
    /\ globals' = [globals EXCEPT !.square = TRUE]
    /\ inbox' = Done(inbox)
    /\ UNCHANGED <<plots, widgets, display, runs, moves, kernel, models, tidy>>

\* The kernel runs the cell  interact(square, x=(-10, 10, 0.1));  the name
\* square is looked up when the cell runs.
ExecuteInteractSquare ==
    /\ Takes("interact_square")
    /\ LET request == Head(inbox).request
       IN  IF globals.square
           THEN LET w == NewWidget("interact_square", globals)
                IN  /\ widgets' = Append(widgets, w)
                    /\ models' = Append(models, NewModel(w))
                    /\ display' = Output("interact_square",
                                         Shows(request, Len(widgets) + 1))
                    /\ inbox' = Done(inbox)
           ELSE /\ widgets' = widgets
                /\ models' = models
                /\ display' = Output("interact_square", Raised(request, "NameError"))
                /\ inbox' = Aborted(inbox, kernel)
    /\ UNCHANGED <<globals, plots, runs, moves, kernel, tidy>>

\* The kernel runs the cell that defines square under the decorator
\* @interact(x=(-10, 10, 0.1)).
ExecuteSquare ==
    /\ Takes("square")
    /\ LET w == NewWidget("square", globals)
       IN  /\ widgets' = Append(widgets, w)
           /\ models' = Append(models, NewModel(w))
           /\ display' = Output("square", Shows(Head(inbox).request, Len(widgets) + 1))
    /\ globals' = [globals EXCEPT !.square = TRUE]
    /\ inbox' = Done(inbox)
    /\ UNCHANGED <<plots, runs, moves, kernel, tidy>>

\* The kernel runs a distribution cell: close all figures, create the plot,
\* bind fig, ax, x and line, define the function and wrap it with interact.
ExecutePlot(cell) ==
    /\ LET id == Len(plots) + 1
           g == Rebound(globals, cell, id)
           w == NewWidget(cell, g)
       IN  /\ globals' = g
           /\ plots' = CallPlots(cell, w.values, g, Append(CloseAll(plots), NewPlot(cell)))
           /\ widgets' = Append(widgets, w)
           /\ models' = Append(models, NewModel(w))
           /\ display' = Output(cell, Shows(Head(inbox).request, Len(widgets) + 1))
    /\ inbox' = Done(inbox)
    /\ UNCHANGED <<runs, moves, kernel, tidy>>

ExecuteNormal ==
    /\ Takes("normal")
    /\ ExecutePlot("normal")

ExecuteBeta ==
    /\ Takes("beta")
    /\ ExecutePlot("beta")

\* The kernel runs the cell that reads data/ball.csv into data.
ExecuteData ==
    /\ Takes("data")
    /\ globals' = [globals EXCEPT !.data = TRUE]
    /\ inbox' = Done(inbox)
    /\ UNCHANGED <<plots, widgets, display, runs, moves, kernel, models, tidy>>

\* The kernel runs the cell of plot: close all figures, create a figure with
\* two axes and bind fig, ax1 and ax2 (ax, line and x keep their values);
\* then the arguments of interact look up data, and with data bound the
\* function is defined and wrapped.
ExecuteResponses ==
    /\ Takes("plot")
    /\ LET id == Len(plots) + 1
           g == [globals EXCEPT !.fig = id, !.ax1 = id]
           ps == Append(CloseAll(plots), NewPlot("plot"))
           w == NewWidget("plot", g)
           request == Head(inbox).request
       IN  /\ globals' = g
           /\ IF globals.data
              THEN /\ plots' = CallPlots("plot", w.values, g, ps)
                   /\ widgets' = Append(widgets, w)
                   /\ models' = Append(models, NewModel(w))
                   /\ display' = Output("plot", Shows(request, Len(widgets) + 1))
                   /\ inbox' = Done(inbox)
              ELSE /\ plots' = ps
                   /\ widgets' = widgets
                   /\ models' = models
                   /\ display' = Output("plot", Raised(request, "NameError"))
                   /\ inbox' = Aborted(inbox, kernel)
    /\ UNCHANGED <<runs, moves, kernel, tidy>>

\* The kernel handles a change of a control: the control takes the value,
\* and when that changes it the widget calls its function with all its
\* current values, before the kernel takes the next message.
HandleChange ==
    /\ inbox # <<>> /\ Head(inbox).kind = "change"
    /\ LET msg == Head(inbox)
           w == widgets[msg.widget]
           args == ChangedArgs(w, msg)
       IN  /\ IF msg.value # w.values[msg.name]
              THEN /\ widgets' = [widgets EXCEPT ![msg.widget] = Called(w, args, globals)]
                   /\ plots' = CallPlots(w.cell, args, globals, plots)
              ELSE /\ widgets' = widgets
                   /\ plots' = plots
           /\ models' = [models EXCEPT ![msg.widget].state[msg.name] = "answered"]
    /\ inbox' = Done(inbox)
    /\ UNCHANGED <<globals, display, runs, moves, kernel, tidy>>

\* A kernel that has run the imports and no other cell.
Fresh ==
    /\ globals = [fig |-> 0, ax |-> 0, line |-> 0, x |-> NoArray, ax1 |-> 0,
                  square |-> FALSE, data |-> FALSE]
    /\ plots = <<>>
    /\ widgets = <<>>
    /\ models = <<>>
    /\ display = [c \in Cells |-> NoWidget]
    /\ inbox = <<>>
    /\ runs = 0
    /\ moves = 0

InitNotebook ==
    /\ Fresh
    /\ kernel \in Kernels
    /\ frames = <<>>
    /\ verbs = <<>>

NextNotebook ==
    \/ RunCell
    \/ MoveSlider
    \/ HandleStatus
    \/ ExecuteDefSquare
    \/ ExecuteInteractSquare
    \/ ExecuteSquare
    \/ ExecuteNormal
    \/ ExecuteBeta
    \/ ExecuteData
    \/ ExecuteResponses
    \/ HandleChange

SpecNotebook == InitNotebook /\ [][NextNotebook]_vars

InitAggregate ==
    /\ frames \in {<<df>> : df \in SgfFrames}
    /\ verbs = <<>>
    /\ Fresh
    /\ kernel = "abort_execute"

NextAggregate == DoFilter \/ DoMutate \/ DoGroupBy \/ DoSummarise

SpecAggregate == InitAggregate /\ [][NextAggregate]_vars

\* The pipes that lead to a summary (mutate, group_by, summarise) on up to
\* MaxObs trials of one participant.
InitSummarise ==
    /\ frames \in {<<df>> : df \in ObsFrames}
    /\ verbs = <<>>
    /\ Fresh
    /\ kernel = "abort_execute"

NextSummarise == DoMutate \/ DoGroupBy \/ DoSummarise

SpecSummarise == InitSummarise /\ [][NextSummarise]_vars

InitReshape ==
    /\ frames \in {<<df>> : df \in LongFrames \cup WideFrames}
    /\ verbs = <<>>
    /\ Fresh
    /\ kernel = "abort_execute"

NextReshape == DoSpread \/ DoGather

SpecReshape == InitReshape /\ [][NextReshape]_vars

(***************************************************************************)
(* Properties of the reshaping verbs.                                       *)
(***************************************************************************)
Steps == DOMAIN verbs

IdCols(df, used) == SelectSeq(df.cols, LAMBDA c : c \notin used)

Count(rows, r) == Cardinality({j \in DOMAIN rows : rows[j] = r})

\* Equal as tables up to the order of the rows and of the columns.
SameUpToOrder(a, b) ==
    /\ ~IsError(a) /\ ~IsError(b)
    /\ Len(a.cols) = Len(b.cols)
    /\ Range(a.cols) = Range(b.cols)
    /\ \A c \in Range(a.cols) : a.types[c] = b.types[c]
    /\ Len(a.rows) = Len(b.rows)
    /\ \A i \in DOMAIN a.rows : Count(a.rows, a.rows[i]) = Count(b.rows, a.rows[i])

\* Two rows of df agree on every column but value, the key column included.
HasDuplicatePair(df, key, value) ==
    \E i \in DOMAIN df.rows : \E j \in DOMAIN df.rows :
        /\ i # j
        /\ \A c \in Range(df.cols) \ {value} : df.rows[i][c] = df.rows[j][c]

\* The steps i at which a gather is directly followed by a spread of the
\* columns that gather created.
GatherThenSpread(i) ==
    /\ i \in Steps /\ i + 1 \in Steps
    /\ verbs[i].op = "gather" /\ verbs[i + 1].op = "spread"
    /\ verbs[i + 1].key = verbs[i].key /\ verbs[i + 1].value = verbs[i].value
    /\ ~HasDuplicatePair(frames[i + 1], verbs[i].key, verbs[i].value)

\* C1 as stated: spread(gather(T, cols)) equals T up to row and column order
\* for every T whose gathered form has no duplicate (key, category) pair.
C1_RoundTripAnyTable ==
    \A i \in Steps : GatherThenSpread(i) => SameUpToOrder(frames[i + 2], frames[i])

\* C1 amended: spread(gather(T, cols)) equals T up to row and column order
\* for every T with at least one row whose gathered form has no duplicate
\* (key, category) pair.
C1_RoundTrip ==
    \A i \in Steps :
        (GatherThenSpread(i) /\ Len(frames[i].rows) > 0)
            => SameUpToOrder(frames[i + 2], frames[i])

C1_Witness ==
    \E i \in Steps :
        /\ GatherThenSpread(i)
        /\ Len(frames[i].rows) = MaxRows
        /\ Len(verbs[i].cols) = 2
        /\ \E r \in DOMAIN frames[i].rows : frames[i].rows[r]["beds"] = NA_real_
        /\ frames[i + 2].rows # frames[i].rows
        /\ SameUpToOrder(frames[i + 2], frames[i])

\* C2: spread returns one row per distinct combination of the key columns and
\* one new column per distinct value of the names column; the cell (key, v) is
\* the value of the input row with that key and name v, NA when there is none.
C2_SpreadContract ==
    \A i \in Steps :
        (verbs[i].op = "spread" /\ ~IsError(frames[i + 1])) =>
            LET in == frames[i]
                out == frames[i + 1]
                key == verbs[i].key
                value == verbs[i].value
                idcols == IdCols(in, {key, value})
                keys == {Project(in.rows[j], idcols) : j \in DOMAIN in.rows}
                names == {in.rows[j][key] : j \in DOMAIN in.rows}
                Src(r, v) == {j \in DOMAIN in.rows :
                                 /\ Project(in.rows[j], idcols) = Project(out.rows[r], idcols)
                                 /\ in.rows[j][key] = v}
            IN  /\ Len(out.rows) = Cardinality(keys)
                /\ {Project(out.rows[r], idcols) : r \in DOMAIN out.rows} = keys
                /\ Len(out.cols) = Len(idcols) + Cardinality(names)
                /\ Range(out.cols) = Range(idcols) \cup names
                /\ \A r \in DOMAIN out.rows : \A v \in names :
                      IF Src(r, v) = {} THEN out.rows[r][v] = NA_real_
                      ELSE \A j \in Src(r, v) : out.rows[r][v] = in.rows[j][value]

C2_Witness ==
    \E i \in Steps :
        /\ verbs[i].op = "spread" /\ ~IsError(frames[i + 1])
        /\ Len(frames[i].rows) = MaxRows
        /\ Len(frames[i + 1].rows) = 2
        /\ Len(frames[i + 1].cols) = 3
        /\ \E r \in DOMAIN frames[i + 1].rows : frames[i + 1].rows[r]["faces"] = NA_real_
        /\ \E r \in DOMAIN frames[i + 1].rows : frames[i + 1].rows[r]["beds"] = Dbl(1)

\* C3: spread stops with the duplicate-identifiers error exactly when two
\* input rows share a (key, name) pair, and then returns no table at all.
C3_SpreadDuplicates ==
    \A i \in Steps :
        verbs[i].op = "spread" =>
            /\ IsError(frames[i + 1])
                  <=> HasDuplicatePair(frames[i], verbs[i].key, verbs[i].value)
            /\ IsError(frames[i + 1]) =>
                  /\ frames[i + 1].err = "Duplicate identifiers for rows"
                  /\ frames[i + 1].cols = <<>>
                  /\ frames[i + 1].rows = <<>>

C3_Witness ==
    \E i \in Steps :
        /\ verbs[i].op = "spread"
        /\ IsError(frames[i + 1])
        /\ \E a \in DOMAIN frames[i].rows : \E b \in DOMAIN frames[i].rows :
              /\ a # b
              /\ frames[i].rows[a]["subid"] = frames[i].rows[b]["subid"]
              /\ frames[i].rows[a]["item"] = frames[i].rows[b]["item"]
              /\ frames[i].rows[a]["correct"] # frames[i].rows[b]["correct"]

\* C4: gather returns (input rows) x (collapsed columns) rows: for every input
\* row and every collapsed column c one row that repeats the other columns and
\* holds the name c and the cell of c, missing cells included.
C4_GatherContract ==
    \A i \in Steps :
        verbs[i].op = "gather" =>
            LET in == frames[i]
                out == frames[i + 1]
                key == verbs[i].key
                value == verbs[i].value
                cols == verbs[i].cols
                idcols == IdCols(in, Range(cols))
                Expected(j, c) ==
                    [x \in Range(idcols) \cup {key, value} |->
                        IF x = key THEN c
                        ELSE IF x = value THEN in.rows[j][c]
                        ELSE in.rows[j][x]]
            IN  /\ ~IsError(out)
                /\ Len(out.rows) = Len(in.rows) * Len(cols)
                /\ Range(out.cols) = Range(idcols) \cup {key, value}
                /\ Len(out.cols) = Len(idcols) + 2
                /\ \A j \in DOMAIN in.rows : \A c \in Range(cols) :
                      Count(out.rows, Expected(j, c))
                          = Cardinality({k \in DOMAIN in.rows :
                                            Expected(k, c) = Expected(j, c)})

C4_Witness ==
    \E i \in Steps :
        /\ verbs[i].op = "gather"
        /\ Len(frames[i].rows) = MaxRows
        /\ Len(verbs[i].cols) = 2
        /\ Len(frames[i + 1].rows) = 2 * MaxRows
        /\ \E r \in DOMAIN frames[i + 1].rows :
              frames[i + 1].rows[r]["correct"] = NA_real_

(***************************************************************************)
(* Properties of the aggregation verbs.                                     *)
(***************************************************************************)
\* The condition holds of the row: the comparison is true of a value that is
\* there, or the value tested for presence is there.
Holds(cond, row) ==
    /\ ~IsNA(row[cond.col])
    /\ cond.fn = "gt" => row[cond.col][1] * cond.arg[2] > cond.arg[1] * row[cond.col][2]
    /\ cond.fn = "lt" => row[cond.col][1] * cond.arg[2] < cond.arg[1] * row[cond.col][2]

Kept(df, conds) ==
    {j \in DOMAIN df.rows : \A k \in DOMAIN conds : Holds(conds[k], df.rows[j])}

\* C5: filter returns exactly the rows for which every condition holds, with
\* the same columns and in their original relative order.
C5_FilterContract ==
    \A i \in Steps :
        verbs[i].op = "filter" =>
            LET in == frames[i]
                out == frames[i + 1]
                keep == Kept(in, verbs[i].conds)
                Nth(m) == CHOOSE j \in keep : Cardinality({x \in keep : x < j}) = m - 1
            IN  /\ out.cols = in.cols
                /\ out.types = in.types
                /\ Len(out.rows) = Cardinality(keep)
                /\ \A m \in DOMAIN out.rows : out.rows[m] = in.rows[Nth(m)]

C5_Witness ==
    \E i \in Steps :
        /\ verbs[i].op = "filter"
        /\ Len(verbs[i].conds) = 2
        /\ Len(frames[i].rows) >= 2
        /\ frames[i + 1].rows = <<frames[i].rows[2]>>
        /\ frames[i].rows[1]["correct"] = NA_real_
        /\ Less(frames[i].rows[1]["age"], Dbl(3))

\* C6: filter is idempotent: filtering the result of a filter call again by
\* the same conditions returns that result.
C6_FilterIdempotent ==
    \A i \in Steps :
        (/\ i + 1 \in Steps
         /\ verbs[i].op = "filter" /\ verbs[i + 1].op = "filter"
         /\ verbs[i + 1].conds = verbs[i].conds)
            => frames[i + 2] = frames[i + 1]

C6_Witness ==
    \E i \in Steps :
        /\ i + 1 \in Steps
        /\ verbs[i].op = "filter" /\ verbs[i + 1].op = "filter"
        /\ verbs[i + 1].conds = verbs[i].conds
        /\ Len(frames[i].rows) >= 2
        /\ Len(frames[i + 1].rows) = Len(frames[i].rows) - 1
        /\ frames[i + 2] = frames[i + 1]

\* C7: the groups of group_by partition the row indices: every row is in
\* exactly one group, and two rows are in the same group exactly when they
\* agree on all key columns.
C7_GroupsPartition ==
    \A i \in Steps :
        verbs[i].op = "group_by" =>
            LET df == frames[i + 1]
                G == GroupIndices(df)
                rowsOf(g) == Range(G[g])
            IN  /\ \A g \in DOMAIN G :
                      /\ rowsOf(g) \subseteq DOMAIN df.rows
                      /\ Len(G[g]) = Cardinality(rowsOf(g))
                /\ \A r \in DOMAIN df.rows :
                      Cardinality({g \in DOMAIN G : r \in rowsOf(g)}) = 1
                /\ \A g \in DOMAIN G : \A h \in DOMAIN G :
                      g # h => rowsOf(g) \cap rowsOf(h) = {}
                /\ \A r \in DOMAIN df.rows : \A q \in DOMAIN df.rows :
                      (\E g \in DOMAIN G : r \in rowsOf(g) /\ q \in rowsOf(g))
                          <=> \A c \in Range(verbs[i].keys) : df.rows[r][c] = df.rows[q][c]

C7_Witness ==
    \E i \in Steps :
        /\ verbs[i].op = "group_by"
        /\ Len(verbs[i].keys) = 2
        /\ Len(frames[i + 1].rows) >= 2
        /\ Len(GroupIndices(frames[i + 1])) = 2
        /\ frames[i + 1].rows[1]["age_group"] = frames[i + 1].rows[2]["age_group"]

\* The rows of df in the group of the summary row out (all rows when df is
\* not grouped), in order.
GroupRows(df, out) ==
    SelectSeq(df.rows, LAMBDA row : \A c \in Range(df.groups) : row[c] = out[c])

\* C8: summarise returns one row per distinct combination of key values (one
\* row for an ungrouped table), the key columns carried through and one column
\* per aggregation holding the reduction of the source column over the group.
C8_SummariseContract ==
    \A i \in Steps :
        verbs[i].op = "summarise" =>
            LET in == frames[i]
                out == frames[i + 1]
                aggs == verbs[i].aggs
                keys == in.groups
                combos == {Project(in.rows[j], keys) : j \in DOMAIN in.rows}
            IN  /\ ~IsError(out)
                /\ Len(out.rows) = IF keys = <<>> THEN 1 ELSE Cardinality(combos)
                /\ keys # <<>> =>
                      {Project(out.rows[r], keys) : r \in DOMAIN out.rows} = combos
                /\ out.cols = keys \o [k \in DOMAIN aggs |-> aggs[k].name]
                /\ \A r \in DOMAIN out.rows : \A k \in DOMAIN aggs :
                      LET rows == GroupRows(in, out.rows[r])
                      IN  out.rows[r][aggs[k].name]
                              = Reduce(aggs[k], [j \in DOMAIN rows |-> rows[j][aggs[k].col]])

C8_Witness ==
    \E i \in Steps :
        /\ verbs[i].op = "summarise"
        /\ Len(frames[i].groups) = 2
        /\ Len(frames[i].rows) >= 2
        /\ Len(frames[i + 1].rows) = 2
        /\ Len(verbs[i].aggs) = 2
        /\ verbs[i].aggs[2].name = "n_observations"
        /\ frames[i + 1].rows[1]["correct"] = Dbl(1)
        /\ frames[i + 1].rows[2]["correct"] = Dbl(0)
        /\ frames[i + 1].rows[1]["n_observations"] = Dbl(1)

\* The reduction fn with its default arguments.
Plain(fn, xs) == IF fn = "mean" THEN Mean(xs, FALSE) ELSE Sd(xs, FALSE)

\* The values of the source column of agg in the group of the summary row out.
Source(df, out, agg) ==
    LET rows == GroupRows(df, out) IN [j \in DOMAIN rows |-> rows[j][agg.col]]

\* C9 as stated: by default a reduction of summarise skips absent values, the
\* result of a group being computed from its non-absent values only.
C9_SkipAbsentByDefault ==
    \A i \in Steps :
        verbs[i].op = "summarise" =>
            \A k \in DOMAIN verbs[i].aggs : \A r \in DOMAIN frames[i + 1].rows :
                LET agg == verbs[i].aggs[k]
                    out == frames[i + 1].rows[r]
                IN  (agg.fn \in {"mean", "sd"} /\ agg.na_rm = "default") =>
                        out[agg.name] = Plain(agg.fn, NoNA(Source(frames[i], out, agg)))

\* C9 amended: by default mean and sd in summarise propagate absent values (a
\* group with an absent value in the source column yields an absent result,
\* NA when the value is NA), and the caller selects skipping with na.rm=TRUE,
\* under which the result is computed from the non-absent values only.
C9_NaRmPolicy ==
    \A i \in Steps :
        verbs[i].op = "summarise" =>
            \A k \in DOMAIN verbs[i].aggs : \A r \in DOMAIN frames[i + 1].rows :
                LET agg == verbs[i].aggs[k]
                    out == frames[i + 1].rows[r]
                    xs == Source(frames[i], out, agg)
                IN  agg.fn \in {"mean", "sd"} =>
                        /\ (agg.na_rm = "default" /\ \E j \in DOMAIN xs : IsNA(xs[j]))
                              => IsNA(out[agg.name])
                        /\ (agg.na_rm = "default" /\ \E j \in DOMAIN xs : xs[j] = NA_real_)
                              => out[agg.name] = NA_real_
                        /\ (agg.na_rm = "default" /\ \A j \in DOMAIN xs : ~IsNA(xs[j]))
                              => out[agg.name] = Plain(agg.fn, xs)
                        /\ agg.na_rm = "TRUE" => out[agg.name] = Plain(agg.fn, NoNA(xs))

\* A group with an absent value, a 0 and a 1 in correct, summarised by
\* sd(correct, na.rm=TRUE) and mean(correct): the sd is that of 0 and 1 (its
\* square is 1/2) and the mean is NA.
C9_Witness ==
    \E i \in Steps :
        /\ verbs[i].op = "summarise"
        /\ frames[i].groups # <<>>
        /\ Len(verbs[i].aggs) = 2
        /\ verbs[i].aggs[1].fn = "sd" /\ verbs[i].aggs[1].na_rm = "TRUE"
        /\ verbs[i].aggs[2].fn = "mean" /\ verbs[i].aggs[2].na_rm = "default"
        /\ \E r \in DOMAIN frames[i + 1].rows :
              LET out == frames[i + 1].rows[r]
                  xs == Source(frames[i], out, verbs[i].aggs[1])
              IN  /\ Len(xs) = 3
                  /\ \E j \in DOMAIN xs : xs[j] = NA_real_
                  /\ \E j \in DOMAIN xs : xs[j] = Dbl(1)
                  /\ \E j \in DOMAIN xs : xs[j] = Dbl(0)
                  /\ out[verbs[i].aggs[1].name] = <<1, 2>>
                  /\ out[verbs[i].aggs[2].name] = NA_real_

\* C10: group_by does no computation on the data: the grouped table has the
\* columns, rows, cells and row order of its input and differs from it only
\* by the grouping marker.
C10_GroupByFrame ==
    \A i \in Steps :
        verbs[i].op = "group_by" =>
            /\ frames[i + 1].cols = frames[i].cols
            /\ frames[i + 1].types = frames[i].types
            /\ frames[i + 1].rows = frames[i].rows
            /\ frames[i + 1].err = frames[i].err
            /\ frames[i + 1].groups = verbs[i].keys

C10_Witness ==
    \E i \in Steps :
        /\ verbs[i].op = "group_by"
        /\ Len(frames[i].rows) >= 2
        /\ frames[i].rows[1]["age_group"] = "(3,4]"
        /\ frames[i].rows[2]["age_group"] = "[2,3]"
        /\ frames[i + 1].rows = frames[i].rows
        /\ frames[i + 1].groups # frames[i].groups

(***************************************************************************)
(* Spreading a long table and gathering it back.                            *)
(***************************************************************************)
\* The columns a spread call created: those of its result that are not
\* identifying columns of its input.
Created(i) ==
    {c \in Range(frames[i + 1].cols) :
        c \notin Range(SpreadIdCols(frames[i], verbs[i].key, verbs[i].value))}

\* The steps i at which a spread that returned a table is directly followed by
\* a gather of exactly the columns it created, under the same two names.
SpreadThenGather(i) ==
    /\ i \in Steps /\ i + 1 \in Steps
    /\ verbs[i].op = "spread" /\ verbs[i + 1].op = "gather"
    /\ ~IsError(frames[i + 1])
    /\ verbs[i + 1].key = verbs[i].key /\ verbs[i + 1].value = verbs[i].value
    /\ Range(verbs[i + 1].cols) = Created(i)
    /\ Len(verbs[i + 1].cols) = Cardinality(Created(i))

\* The spread at step i filled no cell with NA: every row key of its input
\* has a row for every name.
NoCellIntroduced(i) ==
    LET in == frames[i]
        idcols == SpreadIdCols(in, verbs[i].key, verbs[i].value)
    IN  \A r \in DOMAIN in.rows : \A q \in DOMAIN in.rows :
            \E j \in DOMAIN in.rows :
                /\ Project(in.rows[j], idcols) = Project(in.rows[r], idcols)
                /\ in.rows[j][verbs[i].key] = in.rows[q][verbs[i].key]

\* C11 as stated: spread(item, correct) followed by gather(item, correct,
\* <the item columns>) returns the original long table up to ordering.
C11_SpreadGatherAnyTable ==
    \A i \in Steps : SpreadThenGather(i) => SameUpToOrder(frames[i + 2], frames[i])

\* C11 amended: spread(item, correct) followed by gather(item, correct, <the
\* item columns>) returns the original long table up to ordering, provided
\* the spread introduced no absent cell (every key has a row for every item).
C11_SpreadGather ==
    \A i \in Steps :
        (SpreadThenGather(i) /\ NoCellIntroduced(i))
            => SameUpToOrder(frames[i + 2], frames[i])

C11_Witness ==
    \E i \in Steps :
        /\ SpreadThenGather(i) /\ NoCellIntroduced(i)
        /\ Len(frames[i].rows) >= 2
        /\ Len(verbs[i + 1].cols) = 2
        /\ frames[i].rows[1]["item"] = "faces"
        /\ frames[i].rows[1]["correct"] = NA_real_
        /\ frames[i + 2].rows # frames[i].rows
        /\ SameUpToOrder(frames[i + 2], frames[i])

(***************************************************************************)
(* Summarising a table grouped by several columns; counting rows.           *)
(***************************************************************************)
\* C14: summarise on a table grouped by (k1, ..., kn), n >= 2, removes only
\* the last grouping column: its result is grouped by (k1, ..., kn-1), and a
\* summarise applied directly to that result returns one row per distinct
\* combination of k1 .. kn-1, not a single row.
C14_SummarisePeelsOneLevel ==
    \A i \in Steps :
        (verbs[i].op = "summarise" /\ Len(frames[i].groups) >= 2) =>
            LET in == frames[i]
                rest == SubSeq(in.groups, 1, Len(in.groups) - 1)
                combos == {Project(in.rows[j], rest) : j \in DOMAIN in.rows}
            IN  /\ frames[i + 1].groups = rest
                /\ (i + 1 \in Steps /\ verbs[i + 1].op = "summarise") =>
                      /\ Len(frames[i + 2].rows) = Cardinality(combos)
                      /\ {Project(frames[i + 2].rows[r], rest) :
                             r \in DOMAIN frames[i + 2].rows} = combos

C14_Witness ==
    \E i \in Steps :
        /\ i + 1 \in Steps
        /\ verbs[i].op = "summarise" /\ verbs[i + 1].op = "summarise"
        /\ frames[i].groups = <<"age_group", "subid">>
        /\ frames[i + 1].groups = <<"age_group">>
        /\ Len(verbs[i].aggs) = 1
        /\ Len(verbs[i + 1].aggs) = 2
        /\ verbs[i + 1].aggs[2].fn = "sd"
        /\ Len(frames[i + 2].rows) = 2
        /\ frames[i + 2].cols = <<"age_group", "mean_correct", "sd_correct">>

\* The counts a summarise call computed with length(): one per result row.
Counts(i, k) ==
    [r \in DOMAIN frames[i + 1].rows |-> frames[i + 1].rows[r][verbs[i].aggs[k].name]]

\* C15 as stated: the per-group row counts of summarise are all at least 1 and
\* sum to the row count of the input table.
C15_CountsAnyTable ==
    \A i \in Steps :
        verbs[i].op = "summarise" =>
            \A k \in DOMAIN verbs[i].aggs :
                verbs[i].aggs[k].fn = "length" =>
                    /\ \A r \in DOMAIN Counts(i, k) : Counts(i, k)[r][1] >= 1
                    /\ Sum(Counts(i, k)) = Dbl(Len(frames[i].rows))

\* C15 amended: the per-group row counts of summarise sum to the row count of
\* the input table, and each is at least 1 unless the table is ungrouped and
\* has no rows, in which case summarise returns the single count 0.
C15_Counts ==
    \A i \in Steps :
        verbs[i].op = "summarise" =>
            \A k \in DOMAIN verbs[i].aggs :
                verbs[i].aggs[k].fn = "length" =>
                    /\ Sum(Counts(i, k)) = Dbl(Len(frames[i].rows))
                    /\ \A r \in DOMAIN Counts(i, k) : Counts(i, k)[r][2] = 1
                    /\ (frames[i].groups # <<>> \/ frames[i].rows # <<>>) =>
                          \A r \in DOMAIN Counts(i, k) : Counts(i, k)[r][1] >= 1
                    /\ (frames[i].groups = <<>> /\ frames[i].rows = <<>>) =>
                          Counts(i, k) = <<Dbl(0)>>

C15_Witness ==
    \E i \in Steps :
        /\ verbs[i].op = "summarise"
        /\ frames[i].groups = <<"age_group">>
        /\ Len(frames[i].rows) >= 2
        /\ Len(verbs[i].aggs) = 2
        /\ verbs[i].aggs[2].fn = "length"
        /\ Len(frames[i + 1].rows) = 1
        /\ Counts(i, 2) = <<Dbl(Len(frames[i].rows))>>
        /\ frames[i].rows[1]["subid"] = frames[i].rows[2]["subid"]

(***************************************************************************)
(* Properties of the interact widgets.                                      *)
(***************************************************************************)
\* The changes of widget id that are made and not handled: with the kernel,
\* or kept back by the front end.
Pending(id) ==
    {k \in DOMAIN inbox : inbox[k].kind = "change" /\ inbox[k].widget = id}

KeptBack(id) == {n \in DOMAIN models[id].buffer : models[id].buffer[n] # None}

\* Every change of widget id was delivered: none is with the kernel, kept
\* back, or left unanswered.
Delivered(id) ==
    /\ Pending(id) = {}
    /\ \A n \in DOMAIN models[id].state : models[id].state[n] = "idle"

Handles(id) ==
    /\ inbox # <<>>
    /\ Head(inbox).kind = "change" /\ Head(inbox).widget = id
    /\ inbox' = Tail(inbox)
    /\ Head(inbox).value # widgets[id].values[Head(inbox).name]

\* The last call of the function of every widget had the current value of
\* every control, the displayed result of square is the square of that value
\* of x, and these are the values the controls show once every change was
\* delivered.
LatestValues ==
    \A id \in DOMAIN widgets :
        /\ widgets[id].lastargs = widgets[id].values
        /\ DOMAIN widgets[id].lastargs = Params(widgets[id].cell)
        /\ widgets[id].calls <= 1 + models[id].sent
        /\ Func(widgets[id].cell) = "square" =>
              widgets[id].out = Square(widgets[id].values["x"])
        /\ Delivered(id) => widgets[id].values = models[id].shown

\* The function of a widget is called once, with the values of all controls
\* and the changed one at its new value, in the step in which the kernel
\* handles a change that gives a control a new value, and in no other step.
OneCallPerChange ==
    \A id \in DOMAIN widgets :
        IF Handles(id)
        THEN /\ widgets'[id].calls = widgets[id].calls + 1
             /\ widgets'[id].lastargs =
                   [widgets[id].values EXCEPT ![Head(inbox).name] = Head(inbox).value]
             /\ \A n \in DOMAIN widgets[id].values :
                   n # Head(inbox).name => widgets'[id].lastargs[n] = widgets[id].values[n]
        ELSE widgets'[id].calls = widgets[id].calls

C13_CallbacksUseOwnPlot ==
    \A id \in DOMAIN widgets :
        widgets[id].cell \in {"normal", "beta"} =>
            /\ widgets[id].drew.x = Linspace(widgets[id].cell)
            /\ plots[widgets[id].drew.line].cell = widgets[id].cell
            /\ plots[widgets[id].drew.ax].cell = widgets[id].cell
            /\ plots[widgets[id].drew.fig].cell = widgets[id].cell

====
